---- MODULE Spec2Model ----
(***************************************************************************)
(* Model of scripts/remote_keepalive.py: the parallel run coordinator in   *)
(* main(), the time-boxed training loop of train_pure_python() and the     *)
(* sliding-window sample construction.                                     *)
(*                                                                         *)
(* Three specifications share the variables:                               *)
(*   Spec      - main() from the resource detection to save_prediction,    *)
(*               with the multiprocessing.Pool tasks it submits;           *)
(*   SpecTrain - one call of the trainer (through main, through            *)
(*               run_training_process or train_pure_python directly);      *)
(*   SpecWin   - the sample construction applied to bounded histories.     *)
(***************************************************************************)
EXTENDS Integers, Sequences, FiniteSets, TLC

VARIABLES
    \* ---- coordinator (main) ----
    cpc,                \* position of main()
    cpu_count,          \* os.cpu_count(): 0 stands for None
    training_processes, \* worker count chosen by main
    hlen,               \* len(history) as returned by load_history
    results,            \* AsyncResult list: task ids in submission order
    task,               \* task id -> state of the submitted run
    task_out,           \* task id -> value returned by run_training_process
    final_results,      \* values read by r.get(), in order
    pred,               \* (d1, d2, d3) of main
    saved,              \* what save_prediction wrote, or NoPred
    finish_order,       \* history: task ids in the order their runs ended
    sec,                \* outcome of run_security_checks (NoScan before it ran)
    pool_size,          \* processes of the Pool main created, 0 when none
    task_args,          \* task id -> arguments of the submitted run
    \* ---- trainer (train_pure_python) ----
    tpc,                \* position inside the trainer
    entry,              \* which entry point was called
    data_len,           \* len(data)
    seq_len,            \* requested window size
    target_duration,    \* wall-clock budget
    now,                \* time.time()
    start_time,
    effective_seq_len,
    input_size,
    train_len,          \* len(train_data)
    epoch,
    samples_processed,
    idx,                \* samples of the current pass already processed
    lr_epoch,           \* exponent e of learning_rate = initial_lr * 0.995^e, per channel
    tresult,            \* "none" | "digits" | an exception name
    passes_done,        \* history: passes whose for-loop ran to its end
    decays,             \* history: number of decay steps applied
    since_deadline,     \* history: samples processed since the deadline was reached
    pass_after_deadline,\* history: a pass was started after the deadline was reached
    infer_window,       \* window size used by the inference step (-1: none yet)
    nn_log,             \* history: the forward/backward calls made on the three networks
    \* ---- windower ----
    wpc,
    wdata,              \* history: sequence of records
    ww,                 \* window size
    wsamples,           \* train_data built from wdata
    wlast,              \* last_seq of the inference step, or "IndexError"
    \* ---- pool of training runs ----
    wall,               \* time.time() as seen by the workers, in clock ticks
    pool_pids,          \* os.getpid() of the pool's worker processes
    runs,               \* the submitted runs of run_training_process
    heap,               \* per process: number of arrays allocated so far
    \* ---- digit selection ----
    apc,
    achan,              \* channel whose digit is selected
    prob,               \* output vector of the channel's network, indexed 0..9
    digit,              \* selected digit (-1: none yet)
    \* ---- learning-rate decay ----
    learning_rate,      \* self.learning_rate, on the scale of RateOf
    lr_arg,             \* epoch passed to the last call (-1: none yet)
    lr_before,          \* history: learning_rate before the last call
    lr_arg_before,      \* history: epoch passed to the call before the last
    lr_calls,           \* history: number of calls so far
    \* ---- forward, output layer ----
    fpc,
    h2_out,             \* output of the second hidden layer (one unit)
    W3,                 \* weights of the output units, indexed 0..9
    B3,                 \* biases of the output units, indexed 0..9
    final_outputs,      \* self.final_outputs
    exp_evals,          \* history: output units for which math.exp was evaluated
    \* ---- collector and loader ----
    col_pc,
    csv_file,           \* rows of data/fc3d_history.csv
    new_data,           \* [len: length of the fetched list, recs: its tracked records]
    existing,           \* list being merged and saved
    exit_code,          \* -1 while running, else the process exit status
    history,            \* list returned by load_history
    csv_before,         \* history: rows of the file when the collector started
    csv_writes,         \* history: number of times the file was written
    sina_len,           \* history: length of the list returned by fetch_from_sina
    \* ---- duplicate-process cleanup ----
    ipc,                \* per instance: position in main's cleanup
    alive,              \* per instance: the process exists
    sigkill,            \* per instance: a SIGKILL is pending for it
    other_pids,         \* per instance: pids still to be killed
    kills_sent,         \* history: <<sender, target>> of every os.kill call
    \* ---- fetch_from_sina ----
    fetch_pc,
    limit,
    page,
    max_pages,
    all_results,        \* len(all_results)
    returned_len,            \* length of the returned list (-1: not returned yet)
    requests,           \* history: page requests issued
    last_page           \* history: outcome of the last request

coordVars == <<cpc, cpu_count, training_processes, hlen, results, task, task_out,
               final_results, pred, saved, finish_order, sec, pool_size, task_args>>
trainVars == <<tpc, entry, data_len, seq_len, target_duration, now, start_time,
               effective_seq_len, input_size, train_len, epoch, samples_processed,
               idx, lr_epoch, tresult, passes_done, decays, since_deadline,
               pass_after_deadline, infer_window, nn_log>>
winVars == <<wpc, wdata, ww, wsamples, wlast>>
poolVars == <<wall, pool_pids, runs, heap>>
argVars == <<apc, achan, prob, digit>>
decayVars == <<learning_rate, lr_arg, lr_before, lr_arg_before, lr_calls>>
baseVars == <<coordVars, trainVars, winVars, poolVars, argVars>>
fwdVars == <<fpc, h2_out, W3, B3, final_outputs, exp_evals>>
colVars == <<col_pc, csv_file, new_data, existing, exit_code, history, csv_before,
             csv_writes, sina_len>>
cleanVars == <<ipc, alive, sigkill, other_pids, kills_sent>>
fetchVars == <<fetch_pc, limit, page, max_pages, all_results, returned_len, requests,
               last_page>>
restVars == <<decayVars, fwdVars, colVars, cleanVars, fetchVars>>
vars == <<baseVars, restVars>>

(***************************************************************************)
(* Bounds and program constants                                            *)
(***************************************************************************)
MaxCpu == 4                 \* largest CPU count explored
MaxSamples == 110           \* samples processed before the deadline, at most
MaxHist == 4                \* longest history given to the windower
MaxPid == 3                 \* largest process id of a pool worker
MaxWall == 3                \* last clock tick explored
TicksPerSecond == 2         \* clock ticks per second
MaxLevel == 1               \* output values range over 0..MaxLevel
MaxIssue == 3                \* issue ids tracked
MaxInst == 3                 \* keepalive instances on one host
MaxDecayCalls == 4          \* calls of decay_learning_rate on one network

MIN_HISTORY == 50           \* main: if len(history) < 50
SEQ_CAP == 50               \* min(seq_len, 50), min(50, len(data) - 10)
SEQ_MARGIN == 10            \* len(data) - 10
CHECK_EVERY == 500          \* samples_processed % 500 == 0
DECAY_EVERY == 10           \* epoch % 10 == 0
TARGET_DURATION == 300      \* target_duration = 300
UNDERFLOW_EPOCH == 148067   \* least e with 0.05 * 0.995 ** e = 0.0 in binary64
CLAMP == 100                \* sigmoid: if x > 100, if x < -100
PAGE_SIZE == 20             \* fetch_from_sina: limit // 20, pageSize 20
MIN_FETCH == 50             \* collect_data: len(new_data) < 50
EXP_MAX == 709              \* greatest integer x for which math.exp(x) returns

Min(a, b) == IF a <= b THEN a ELSE b
Max(a, b) == IF a >= b THEN a ELSE b

NoPred == <<>>
NoArgs == <<>>
InitialPred == <<0, 0, 0>>
PredSet == {<<1, 2, 3>>, <<4, 5, 6>>}
MaxTasks == MaxCpu - 1
Tasks == 1..MaxTasks

NoScan == [kind |-> "none", issues |-> <<>>]
NoSample == <<>>
Channels == 1..3

\* what is recorded of the calls on the network of each channel: the sample
\* whose features the last forward got (NoSample once a backward consumed it),
\* the forward and backward calls of the current pass, the target digits
\* (1: d1, 2: d2, 3: d3) it was trained on, whether a backward ran on
\* activations that were not those of its own sample, and the objects that
\* its forward calls, its backward calls and the loop body assigned to
EmptyLog ==
    [ pending |-> [c \in Channels |-> NoSample],
      fwd |-> [c \in Channels |-> 0],
      bwd |-> [c \in Channels |-> 0],
      targets |-> [c \in Channels |-> {}],
      mismatch |-> FALSE,
      fwd_writes |-> [c \in Channels |-> {}],
      bwd_writes |-> [c \in Channels |-> {}],
      loop_writes |-> {} ]

(***************************************************************************)
(* Idle values of the parts a specification does not run                   *)
(***************************************************************************)
CoordIdle ==
    /\ cpc = "idle" /\ cpu_count = 0 /\ training_processes = 0 /\ hlen = 0
    /\ results = <<>> /\ task = [t \in Tasks |-> "none"]
    /\ task_out = [t \in Tasks |-> NoPred]
    /\ final_results = <<>> /\ pred = InitialPred /\ saved = NoPred
    /\ finish_order = <<>>
    /\ sec = NoScan /\ pool_size = 0 /\ task_args = [t \in Tasks |-> NoArgs]

TrainIdle ==
    /\ tpc = "idle" /\ entry = "none" /\ data_len = 0 /\ seq_len = 0
    /\ target_duration = 0 /\ now = 0 /\ start_time = 0
    /\ effective_seq_len = 0 /\ input_size = 0 /\ train_len = 0
    /\ epoch = 0 /\ samples_processed = 0 /\ idx = 0
    /\ lr_epoch = <<0, 0, 0>> /\ tresult = "none"
    /\ passes_done = 0 /\ decays = 0 /\ since_deadline = 0
    /\ pass_after_deadline = FALSE /\ infer_window = -1
    /\ nn_log = EmptyLog

WinIdle ==
    /\ wpc = "idle" /\ wdata = <<>> /\ ww = 0 /\ wsamples = <<>> /\ wlast = <<>>

PoolIdle ==
    /\ wall = 0 /\ pool_pids = {} /\ runs = <<>> /\ heap = <<>>

ArgIdle ==
    /\ apc = "idle" /\ achan = 0 /\ prob = <<>> /\ digit = -1

DecayIdle ==
    /\ learning_rate = 0 /\ lr_arg = -1 /\ lr_before = 0 /\ lr_arg_before = -1
    /\ lr_calls = 0

FwdIdle ==
    /\ fpc = "idle" /\ h2_out = 0 /\ W3 = <<>> /\ B3 = <<>>
    /\ final_outputs = <<>> /\ exp_evals = {}

NoFetch == [len |-> 0, recs |-> <<>>]

ColIdle ==
    /\ col_pc = "idle" /\ csv_file = <<>> /\ new_data = NoFetch /\ existing = <<>>
    /\ exit_code = -1 /\ history = <<>> /\ csv_before = <<>> /\ csv_writes = 0
    /\ sina_len = 0

CleanIdle ==
    /\ ipc = <<>> /\ alive = <<>> /\ sigkill = <<>> /\ other_pids = <<>>
    /\ kills_sent = {}

FetchIdle ==
    /\ fetch_pc = "idle" /\ limit = 0 /\ page = 0 /\ max_pages = 0
    /\ all_results = 0 /\ returned_len = -1 /\ requests = 0 /\ last_page = "none"

RestIdle == DecayIdle /\ FwdIdle /\ ColIdle /\ CleanIdle /\ FetchIdle

(***************************************************************************)
(* Coordinator: main(), lines 594-669                                      *)
(***************************************************************************)
HistLens == {0, MIN_HISTORY - 1, MIN_HISTORY, MIN_HISTORY + 5}

\* cpu_count = os.cpu_count() or 1
CpuOrOne(c) == IF c = 0 THEN 1 ELSE c

\* lines 609-612
WorkerCountAll(c) == IF c >= 3 THEN c ELSE 1
WorkerCount(c) == IF c >= 3 THEN c - 1 ELSE 1

CoordInit ==
    /\ cpc = "security"
    /\ cpu_count \in 0..MaxCpu
    /\ training_processes = 0
    /\ hlen = 0
    /\ results = <<>>
    /\ task = [t \in Tasks |-> "none"]
    /\ task_out = [t \in Tasks |-> NoPred]
    /\ final_results = <<>>
    /\ pred = InitialPred
    /\ saved = NoPred
    /\ finish_order = <<>>
    /\ sec = NoScan /\ pool_size = 0 /\ task_args = [t \in Tasks |-> NoArgs]

\* security_check.py lines 486-494: the scan returns the list of issues, each
\* with a level, or raises
IssueLevels == {"CRITICAL", "WARNING", "INFO"}
IssueLists ==
    {<<>>} \union {<<a>> : a \in IssueLevels}
           \union {<<a, b>> : a \in IssueLevels, b \in IssueLevels}
SecOutcomes ==
    {[kind |-> "returned", issues |-> l] : l \in IssueLists}
        \union {[kind |-> "raised", issues |-> <<>>]}

\* has_critical, the second component of the scan's result
HasCritical(o) == \E k \in DOMAIN o.issues : o.issues[k] = "CRITICAL"

\* line 581: if issues
AbortOnCritical(o) == o.kind = "returned" /\ HasCritical(o)
AbortOn(o) == o.kind = "returned" /\ o.issues # <<>>

\* lines 578-591: issues of any level make main return; an exception raised by
\* the scan is caught and main goes on
SecurityCheck ==
    /\ cpc = "security"
    /\ \E o \in SecOutcomes :
         /\ sec' = o
         /\ cpc' = IF AbortOn(o) THEN "aborted" ELSE "detect"
    /\ UNCHANGED <<trainVars, winVars, poolVars, argVars, restVars,
                   finish_order, pool_size, task_args,
                   cpu_count, training_processes, hlen, results, task, task_out,
                   final_results, pred, saved>>

DetectResources ==
    /\ cpc = "detect"
    /\ training_processes' = WorkerCount(CpuOrOne(cpu_count))
    /\ cpc' = "load"
    /\ UNCHANGED <<trainVars, winVars, poolVars, argVars, restVars,
                   finish_order, sec, pool_size, task_args,
                   cpu_count, hlen, results, task, task_out, final_results, pred, saved>>

\* history = load_history(); if len(history) < 50: return
LoadHistory ==
    /\ cpc = "load"
    /\ \E n \in HistLens :
         /\ hlen' = n
         /\ cpc' = IF n < MIN_HISTORY THEN "insufficient" ELSE "mode"
    /\ UNCHANGED <<trainVars, winVars, poolVars, argVars, restVars,
                   finish_order, sec, pool_size, task_args,
                   cpu_count, training_processes, results, task, task_out,
                   final_results, pred, saved>>

\* if training_processes > 1
UsePoolAlways(n) == n >= 1
UsePool(n) == n > 1

\* lines 636-642: the branch between the pool and the in-process run;
\* with Pool(processes=training_processes) creates the pool
StartTraining ==
    /\ cpc = "mode"
    /\ IF UsePool(training_processes)
       THEN pool_size' = training_processes /\ cpc' = "submit"
       ELSE pool_size' = 0 /\ cpc' = "single"
    /\ UNCHANGED <<trainVars, winVars, poolVars, argVars, restVars,
                   finish_order, sec, task_args,
                   cpu_count, training_processes, hlen, results, task, task_out,
                   final_results, pred, saved>>

\* the arguments of run_training_process: history (its length) and target_duration
RunArgs(n, d) == [history_len |-> n, target_duration |-> d]

\* results.append(pool.apply_async(run_training_process, ...))
Submit ==
    /\ cpc = "submit"
    /\ LET i == Len(results) + 1 IN
         /\ results' = Append(results, i)
         /\ task' = [task EXCEPT ![i] = "queued"]
         /\ task_args' = [task_args EXCEPT ![i] = RunArgs(hlen, TARGET_DURATION)]
         /\ cpc' = IF i = training_processes THEN "collect" ELSE "submit"
    /\ UNCHANGED <<trainVars, winVars, poolVars, argVars, restVars,
                   finish_order, sec, pool_size,
                   cpu_count, training_processes, hlen, task_out, final_results,
                   pred, saved>>

Running == {t \in Tasks : task[t] = "running"}

\* a pool process takes the task from the queue
TaskStart(t) ==
    /\ cpc \in {"submit", "collect"}
    /\ task[t] = "queued"
    /\ Cardinality(Running) < pool_size
    /\ task' = [task EXCEPT ![t] = "running"]
    /\ UNCHANGED <<trainVars, winVars, poolVars, argVars, restVars,
                   finish_order, sec, pool_size, task_args,
                   cpc, cpu_count, training_processes, hlen, results, task_out,
                   final_results, pred, saved>>

\* run_training_process returns d1, d2, d3
TaskReturn(t) ==
    /\ task[t] = "running"
    /\ \E d \in PredSet :
         /\ task_out' = [task_out EXCEPT ![t] = d]
         /\ task' = [task EXCEPT ![t] = "returned"]
    /\ finish_order' = Append(finish_order, t)
    /\ UNCHANGED <<trainVars, winVars, poolVars, argVars, restVars, sec, pool_size, task_args,
                   cpc, cpu_count, training_processes, hlen, results,
                   final_results, pred, saved>>

\* run_training_process raises: the pool stores the exception in the AsyncResult
TaskRaise(t) ==
    /\ task[t] = "running"
    /\ task' = [task EXCEPT ![t] = "raised"]
    /\ finish_order' = Append(finish_order, t)
    /\ UNCHANGED <<trainVars, winVars, poolVars, argVars, restVars, sec, pool_size, task_args,
                   cpc, cpu_count, training_processes, hlen, results, task_out,
                   final_results, pred, saved>>

\* the pool process running the task dies (SIGKILL, OOM): multiprocessing.Pool
\* replaces the process, the task's AsyncResult is never set
TaskCrash(t) ==
    /\ task[t] = "running"
    /\ task' = [task EXCEPT ![t] = "lost"]
    /\ finish_order' = Append(finish_order, t)
    /\ UNCHANGED <<trainVars, winVars, poolVars, argVars, restVars, sec, pool_size, task_args,
                   cpc, cpu_count, training_processes, hlen, results, task_out,
                   final_results, pred, saved>>

\* leaving "with Pool(...)": pool.terminate() stops what is still queued or running
PoolTerminate(tk) ==
    [t \in Tasks |-> IF tk[t] \in {"queued", "running"} THEN "terminated" ELSE tk[t]]

\* the AsyncResults the coordinator reads before selecting: [r.get() for r in results]
GetFirstOnly(rs) == IF Len(rs) = 0 THEN <<>> ELSE <<rs[1]>>
ResultsToGet(rs) == rs

\* one r.get() of final_results = [r.get() for r in results]: blocks until the
\* AsyncResult is set, returns its value or re-raises its exception
Collect ==
    /\ cpc = "collect"
    /\ LET i == Len(final_results) + 1
           t == ResultsToGet(results)[i]
       IN
         \/ /\ task[t] = "returned"
            /\ final_results' = Append(final_results, task_out[t])
            /\ cpc' = IF i = Len(ResultsToGet(results)) THEN "select" ELSE "collect"
            /\ UNCHANGED task
         \/ /\ task[t] = "raised"
            /\ cpc' = "failed"
            /\ task' = PoolTerminate(task)
            /\ UNCHANGED final_results
    /\ UNCHANGED <<trainVars, winVars, poolVars, argVars, restVars,
                   finish_order, sec, pool_size, task_args,
                   cpu_count, training_processes, hlen, results, task_out, pred, saved>>

\* d1, d2, d3 = final_results[0]
SelectLast(fr) == fr[Len(fr)]
SelectResult(fr) == fr[1]

Select ==
    /\ cpc = "select"
    /\ pred' = SelectResult(final_results)
    /\ task' = PoolTerminate(task)
    /\ cpc' = "save"
    /\ UNCHANGED <<trainVars, winVars, poolVars, argVars, restVars,
                   finish_order, sec, pool_size, task_args,
                   cpu_count, training_processes, hlen, results, task_out,
                   final_results, saved>>

\* single-process mode: d1, d2, d3 = train_pure_python(history, ...)
TrainInProcess ==
    /\ cpc = "single"
    /\ \/ \E d \in PredSet : pred' = d /\ cpc' = "save"
       \/ pred' = pred /\ cpc' = "failed"
    /\ UNCHANGED <<trainVars, winVars, poolVars, argVars, restVars,
                   finish_order, sec, pool_size, task_args,
                   cpu_count, training_processes, hlen, results, task, task_out,
                   final_results, saved>>

\* save_prediction(next_issue, d1, d2, d3, hostname=hostname)
SavePrediction ==
    /\ cpc = "save"
    /\ saved' = pred
    /\ cpc' = "done"
    /\ UNCHANGED <<trainVars, winVars, poolVars, argVars, restVars,
                   finish_order, sec, pool_size, task_args,
                   cpu_count, training_processes, hlen, results, task, task_out,
                   final_results, pred>>

CoordNext ==
    \/ SecurityCheck
    \/ DetectResources
    \/ LoadHistory
    \/ StartTraining
    \/ Submit
    \/ \E t \in Tasks : TaskStart(t)
    \/ \E t \in Tasks : TaskReturn(t)
    \/ \E t \in Tasks : TaskRaise(t)
    \/ \E t \in Tasks : TaskCrash(t)
    \/ Collect
    \/ Select
    \/ TrainInProcess
    \/ SavePrediction

Init == CoordInit /\ TrainIdle /\ WinIdle /\ PoolIdle /\ ArgIdle /\ RestIdle
Next == CoordNext
Spec == Init /\ [][Next]_vars

(***************************************************************************)
(* Trainer: run_training_process (517-530) and train_pure_python (290-415) *)
(***************************************************************************)
DataLens == {3, 5, 30, 53, 560}
SeqLens == {50, 60}
Durations == {0, TARGET_DURATION}
Entries == {"main", "run_training_process", "train_pure_python"}
\* data[k] of a Python list of length n is defined for -n <= k < n
PyIndexOK(n, k) == -n <= k /\ k < n
\* range(n)
PyRange(n) == 0..(n - 1)

\* seq_len = min(50, len(data) - 10), in run_training_process and in main
CallerSeqLen(n) == Min(SEQ_CAP, n - SEQ_MARGIN)

\* effective_seq_len = min(seq_len, 50)
EffectiveUncapped(s) == s
EffectiveSeqLen(s) == Min(s, SEQ_CAP)

\* range(len(data) - effective_seq_len): the number of windows is its argument
SampleCountShort(n, w) == n - w - 1
SampleCount(n, w) == n - w

\* while time.time() - start_time < target_duration
LoopGuardInclusive(elapsed, budget) == elapsed <= budget
LoopGuard(elapsed, budget) == elapsed < budget

\* if epoch % 10 == 0
DecayDueAfter(e) == e % DECAY_EVERY = 1 /\ e > 1
DecayDue(e) == e % DECAY_EVERY = 0

\* if samples_processed % 500 == 0
CheckNever(n) == FALSE
CheckDue(n) == n % CHECK_EVERY = 0

\* lines 354-366: the calls one training sample makes, in order
SampleCallsCrossed ==
    << [net |-> 1, op |-> "forward", target |-> 0],
       [net |-> 2, op |-> "backward", target |-> 1],
       [net |-> 2, op |-> "forward", target |-> 0],
       [net |-> 1, op |-> "backward", target |-> 2],
       [net |-> 3, op |-> "forward", target |-> 0],
       [net |-> 3, op |-> "backward", target |-> 3] >>
SampleCalls ==
    << [net |-> 1, op |-> "forward", target |-> 0],
       [net |-> 1, op |-> "backward", target |-> 1],
       [net |-> 2, op |-> "forward", target |-> 0],
       [net |-> 2, op |-> "backward", target |-> 2],
       [net |-> 3, op |-> "forward", target |-> 0],
       [net |-> 3, op |-> "backward", target |-> 3] >>

\* lines 398-400: the calls of the inference step
InferCalls ==
    << [net |-> 1, op |-> "forward", target |-> 0],
       [net |-> 2, op |-> "forward", target |-> 0],
       [net |-> 3, op |-> "forward", target |-> 0] >>

\* The objects a statement assigns to or mutates: an attribute of the
\* network of a channel, one of the lists handed to the trainer and its
\* networks, or a local variable of train_pure_python.
WeightFields == {"W1", "B1", "W2", "B2", "W3", "B3"}
CacheFields == {"inputs", "h1_raw", "h1_out", "h2_raw", "h2_out", "final_outputs"}
InputLists == {<<"list", l>> : l \in {"data", "train_data", "inputs", "last_seq"}}

\* lines 209-237: self.inputs = inputs binds the attribute to the caller's
\* list; the other attributes are rebuilt
ForwardWrites(c) == {<<"net", c, f>> : f \in CacheFields}

\* lines 242-283: the three error lists are locals; W3, B3, W2, B2, W1, B1 of
\* self are updated in place
BackwardWritesInputs(c) ==
    {<<"net", c, f>> : f \in WeightFields} \union {<<"list", "inputs">>}
BackwardWrites(c) == {<<"net", c, f>> : f \in WeightFields}

\* lines 352-375: the statements of the loop body other than the calls
LoopWrites ==
    {<<"local", v>> : v \in {"out1", "target1", "out2", "target2", "out3", "target3",
                             "epoch_loss", "samples_processed"}}

\* forward(inputs) caches the activations of inputs (lines 209-239);
\* backward(expected) consumes the cached activations (lines 245-283)
ApplyCall(log, call, smp) ==
    IF call.op = "forward"
    THEN [log EXCEPT !.pending[call.net] = smp,
                     !.fwd[call.net] = @ + 1,
                     !.fwd_writes[call.net] = @ \union ForwardWrites(call.net)]
    ELSE [log EXCEPT !.mismatch = @ \/ log.pending[call.net] # smp,
                     !.pending[call.net] = NoSample,
                     !.bwd[call.net] = @ + 1,
                     !.targets[call.net] = @ \union {call.target},
                     !.bwd_writes[call.net] = @ \union BackwardWrites(call.net)]

RECURSIVE ApplyCalls(_, _, _, _)
ApplyCalls(log, calls, k, smp) ==
    IF k > Len(calls) THEN log
    ELSE ApplyCalls(ApplyCall(log, calls[k], smp), calls, k + 1, smp)

\* a new pass starts counting its calls afresh
NewPassLog(log) ==
    [log EXCEPT !.fwd = [c \in Channels |-> 0], !.bwd = [c \in Channels |-> 0]]

\* lines 347-349: decay_learning_rate(epoch) on nn_d1, nn_d2 and nn_d3
DecayFirstOnly(lr, e) == [lr EXCEPT ![1] = e]
DecayAll(lr, e) == [c \in Channels |-> e]

Elapsed == now - start_time
DeadlineReached == Elapsed >= target_duration

TrainInit ==
    /\ tpc = "entry"
    /\ entry \in Entries
    /\ data_len \in DataLens
    /\ entry = "main" => data_len >= MIN_HISTORY
    /\ seq_len \in IF entry = "train_pure_python" THEN SeqLens ELSE {0}
    /\ target_duration \in IF entry = "main" THEN {TARGET_DURATION} ELSE Durations
    /\ now = 0 /\ start_time = 0
    /\ effective_seq_len = 0 /\ input_size = 0 /\ train_len = 0
    /\ epoch = 0 /\ samples_processed = 0 /\ idx = 0
    /\ lr_epoch = <<0, 0, 0>> /\ tresult = "none"
    /\ passes_done = 0 /\ decays = 0 /\ since_deadline = 0
    /\ pass_after_deadline = FALSE /\ infer_window = -1
    /\ nn_log = EmptyLog

\* the caller computes the window size it passes (lines 524, 656); a direct
\* call passes its own
CallTrainer ==
    /\ tpc = "entry"
    /\ seq_len' = IF entry = "train_pure_python" THEN seq_len ELSE CallerSeqLen(data_len)
    /\ tpc' = "build"
    /\ UNCHANGED <<coordVars, winVars, poolVars, argVars, restVars,
                   entry, data_len, target_duration, now, start_time,
                   effective_seq_len, input_size, train_len, epoch, samples_processed,
                   idx, lr_epoch, tresult, passes_done, decays, since_deadline,
                   pass_after_deadline, infer_window, nn_log>>

\* lines 300-319: window size, three networks at the initial rate, start_time
BuildNetworks ==
    /\ tpc = "build"
    /\ effective_seq_len' = EffectiveSeqLen(seq_len)
    /\ input_size' = effective_seq_len' * 3
    /\ lr_epoch' = [c \in Channels |-> 0]
    /\ start_time' = now
    /\ epoch' = 0 /\ samples_processed' = 0
    /\ tpc' = "prepare"
    /\ UNCHANGED <<coordVars, winVars, poolVars, argVars, restVars,
                   entry, data_len, seq_len, target_duration, now,
                   train_len, idx, tresult, passes_done, decays, since_deadline,
                   pass_after_deadline, infer_window, nn_log>>

\* lines 322-336 raise IndexError when data[i + j] or data[i + effective_seq_len]
\* is out of range
PrepareRaises(n, w) ==
    \E i \in PyRange(SampleCount(n, w)) :
        \/ \E j \in PyRange(w) : ~PyIndexOK(n, i + j)
        \/ ~PyIndexOK(n, i + w)

\* lines 321-338: train_data has one entry per i in range(len(data) - effective_seq_len)
PrepareData ==
    /\ tpc = "prepare"
    /\ IF PrepareRaises(data_len, effective_seq_len)
       THEN /\ tpc' = "raised" /\ tresult' = "IndexError"
            /\ UNCHANGED train_len
       ELSE /\ train_len' = Cardinality(PyRange(SampleCount(data_len, effective_seq_len)))
            /\ tpc' = "while"
            /\ UNCHANGED tresult
    /\ UNCHANGED <<coordVars, winVars, poolVars, argVars, restVars,
                   entry, data_len, seq_len, target_duration, now,
                   start_time, effective_seq_len, input_size, epoch, samples_processed,
                   idx, lr_epoch, passes_done, decays, since_deadline,
                   pass_after_deadline, infer_window, nn_log>>

\* lines 341-349: the loop condition, epoch += 1 and the learning-rate decay
WhileCheck ==
    /\ tpc = "while"
    /\ IF LoopGuard(Elapsed, target_duration)
       THEN /\ epoch' = epoch + 1
            /\ IF DecayDue(epoch')
               THEN /\ lr_epoch' = DecayAll(lr_epoch, epoch')
                    /\ decays' = decays + 1
               ELSE UNCHANGED <<lr_epoch, decays>>
            /\ idx' = 0
            /\ nn_log' = NewPassLog(nn_log)
            /\ pass_after_deadline' = (pass_after_deadline \/ DeadlineReached)
            /\ IF train_len = 0
               THEN tpc' = "passend" /\ passes_done' = passes_done + 1
               ELSE tpc' = "pass" /\ UNCHANGED passes_done
       ELSE /\ tpc' = "infer"
            /\ UNCHANGED <<epoch, lr_epoch, decays, idx, pass_after_deadline, passes_done,
                           nn_log>>
    /\ UNCHANGED <<coordVars, winVars, poolVars, argVars, restVars,
                   entry, data_len, seq_len, target_duration, now,
                   start_time, effective_seq_len, input_size, train_len,
                   samples_processed, tresult, since_deadline, infer_window>>

\* lines 352-379: one sample through the three networks, then the periodic
\* deadline check
ProcessSample ==
    /\ tpc = "pass"
    /\ idx < train_len
    /\ DeadlineReached \/ samples_processed < MaxSamples
    /\ samples_processed' = samples_processed + 1
    /\ idx' = idx + 1
    /\ nn_log' = [ApplyCalls(nn_log, SampleCalls, 1, <<epoch, idx'>>)
                      EXCEPT !.loop_writes = @ \union LoopWrites]
    /\ since_deadline' = IF DeadlineReached THEN since_deadline + 1 ELSE since_deadline
    /\ passes_done' = IF idx' = train_len THEN passes_done + 1 ELSE passes_done
    /\ tpc' = IF (CheckDue(samples_processed') /\ DeadlineReached) \/ idx' = train_len
              THEN "passend" ELSE "pass"
    /\ UNCHANGED <<coordVars, winVars, poolVars, argVars, restVars,
                   entry, data_len, seq_len, target_duration, now,
                   start_time, effective_seq_len, input_size, train_len, epoch,
                   lr_epoch, tresult, decays, pass_after_deadline, infer_window>>

\* lines 381-384: total_loss = epoch_loss / len(train_data), then the deadline
\* check at the pass boundary
PassEnd ==
    /\ tpc = "passend"
    /\ IF train_len = 0
       THEN tpc' = "raised" /\ tresult' = "ZeroDivisionError"
       ELSE /\ tpc' = IF DeadlineReached THEN "infer" ELSE "while"
            /\ UNCHANGED tresult
    /\ UNCHANGED <<coordVars, winVars, poolVars, argVars, restVars,
                   entry, data_len, seq_len, target_duration, now,
                   start_time, effective_seq_len, input_size, train_len, epoch,
                   samples_processed, idx, lr_epoch, passes_done, decays,
                   since_deadline, pass_after_deadline, infer_window, nn_log>>

\* item = data[-(effective_seq_len - i)]
LastIndexReversed(w, i) == -(i + 1)
LastIndex(w, i) == -(w - i)

\* lines 392-395 raise IndexError when data[-(effective_seq_len - i)] is out of range
InferRaises(n, w) == \E i \in PyRange(w) : ~PyIndexOK(n, LastIndex(w, i))

\* lines 391-415: last window, one forward per channel, argmax, return d1, d2, d3
Infer ==
    /\ tpc = "infer"
    /\ IF InferRaises(data_len, effective_seq_len)
       THEN /\ tpc' = "raised" /\ tresult' = "IndexError"
            /\ UNCHANGED <<infer_window, nn_log>>
       ELSE /\ infer_window' = effective_seq_len
            /\ nn_log' = ApplyCalls(nn_log, InferCalls, 1, <<0, 0>>)
            /\ tpc' = "done" /\ tresult' = "digits"
    /\ UNCHANGED <<coordVars, winVars, poolVars, argVars, restVars,
                   entry, data_len, seq_len, target_duration, now,
                   start_time, effective_seq_len, input_size, train_len, epoch,
                   samples_processed, idx, lr_epoch, passes_done, decays,
                   since_deadline, pass_after_deadline>>

\* time.time() advances (never backwards); the clock is observed at the
\* resolution of the budget
Tick ==
    /\ tpc \in {"prepare", "while", "pass", "passend", "infer"}
    /\ Elapsed < TARGET_DURATION
    /\ now' = now + TARGET_DURATION
    /\ UNCHANGED <<coordVars, winVars, poolVars, argVars, restVars,
                   tpc, entry, data_len, seq_len, target_duration,
                   start_time, effective_seq_len, input_size, train_len, epoch,
                   samples_processed, idx, lr_epoch, tresult, passes_done, decays,
                   since_deadline, pass_after_deadline, infer_window, nn_log>>

TrainStep ==
    \/ CallTrainer
    \/ BuildNetworks
    \/ PrepareData
    \/ WhileCheck
    \/ ProcessSample
    \/ PassEnd
    \/ Infer

InitTrain == CoordIdle /\ TrainInit /\ WinIdle /\ PoolIdle /\ ArgIdle /\ RestIdle
NextTrain == TrainStep \/ Tick
SpecTrain == InitTrain /\ [][NextTrain]_vars

(***************************************************************************)
(* Windower: the sample construction of train_pure_python, lines 321-336   *)
(***************************************************************************)
WinRecords == { [d1 |-> 1, d2 |-> 2, d3 |-> 3],
                [d1 |-> 9, d2 |-> 0, d3 |-> 5],
                [d1 |-> 4, d2 |-> 4, d3 |-> 7] }
WinHistories == UNION { [1..n -> WinRecords] : n \in 1..MaxHist }

\* data[k], Python indexing (k may be negative)
PyGet(data, k) == IF k >= 0 THEN data[k + 1] ELSE data[Len(data) + k + 1]

\* item["d"] / 9.0, kept as the fraction <<numerator, denominator>>
Norm(d) == <<d, 9>>

\* for j in range(effective_seq_len): inputs.extend([d1/9.0, d2/9.0, d3/9.0])
RECURSIVE WindowInputs(_, _, _, _)
WindowInputs(data, i, j, w) ==
    IF j >= w THEN <<>>
    ELSE LET item == PyGet(data, i + j) IN
         <<Norm(item.d1), Norm(item.d2), Norm(item.d3)>>
             \o WindowInputs(data, i, j + 1, w)

\* target = data[i + effective_seq_len]
TargetIndexPrev(i, w) == i + w - 1
TargetIndex(i, w) == i + w

\* for i in range(len(data) - effective_seq_len): train_data.append({...})
RECURSIVE BuildTrainData(_, _, _)
BuildTrainData(data, i, w) ==
    IF i >= SampleCount(Len(data), w) THEN <<>>
    ELSE LET target == PyGet(data, TargetIndex(i, w)) IN
         << [inputs |-> WindowInputs(data, i, 0, w),
             d1 |-> target.d1, d2 |-> target.d2, d3 |-> target.d3] >>
             \o BuildTrainData(data, i + 1, w)

WinInit ==
    /\ wpc = "start"
    /\ wdata \in WinHistories
    /\ ww \in 0..MaxHist
    /\ wsamples = <<>>
    /\ wlast = <<>>

BuildSamples ==
    /\ wpc = "start"
    /\ wsamples' = BuildTrainData(wdata, 0, ww)
    /\ wpc' = "built"
    /\ UNCHANGED <<coordVars, trainVars, poolVars, argVars, restVars, wdata, ww, wlast>>

\* for i in range(effective_seq_len): last_seq.extend([d1/9.0, d2/9.0, d3/9.0])
RECURSIVE LastSeq(_, _, _)
LastSeq(data, i, w) ==
    IF i >= w THEN <<>>
    ELSE LET item == PyGet(data, LastIndex(w, i)) IN
         <<Norm(item.d1), Norm(item.d2), Norm(item.d3)>> \o LastSeq(data, i + 1, w)

\* lines 391-395: the inference input; data[k] raises IndexError out of range
BuildLastSeq ==
    /\ wpc = "built"
    /\ wlast' = IF InferRaises(Len(wdata), ww) THEN "IndexError"
                ELSE LastSeq(wdata, 0, ww)
    /\ wpc' = "inferred"
    /\ UNCHANGED <<coordVars, trainVars, poolVars, argVars, restVars, wdata, ww, wsamples>>

InitWin == CoordIdle /\ TrainIdle /\ WinInit /\ PoolIdle /\ ArgIdle /\ RestIdle
NextWin == BuildSamples \/ BuildLastSeq
SpecWin == InitWin /\ [][NextWin]_vars

(***************************************************************************)
(* Pool of training runs: main() lines 642-652 hands training_processes    *)
(* runs of run_training_process (lines 517-530) to a pool of as many       *)
(* worker processes; each run seeds the generator and builds its networks. *)
(***************************************************************************)
Pids == 1..MaxPid
\* line 639: a pool is used for two workers or more
PoolSizes == {2, 3}

\* lines 182-191: W1, B1, W2, B2, W3, B3
ARRAYS_PER_NET == 6

\* line 522: os.getpid() + time.time(); the clock is read in ticks of
\* 1/TicksPerSecond s, so the sum is kept in ticks as well
Seed(pid, t) == pid * TicksPerSecond + t

QueuedRun ==
    [st |-> "queued", pid |-> 0, seed |-> -1, start |-> -1,
     nets |-> [c \in Channels |-> {}], log |-> EmptyLog]

\* lines 182-191: the list comprehensions of one __init__ allocate fresh
\* arrays; an array is identified by its process and its allocation number
NetworkArrays(pid, base) == {<<pid, base + k>> : k \in 1..ARRAYS_PER_NET}

\* lines 312-314: three constructor calls, one after the other
ChannelBaseShared(h, c) == h
ChannelBase(h, c) == h + (c - 1) * ARRAYS_PER_NET

Busy(p) ==
    \E r \in DOMAIN runs : runs[r].pid = p /\ runs[r].st \in {"seeded", "built", "trained"}
Queued == {r \in DOMAIN runs : runs[r].st = "queued"}

PoolInit ==
    /\ wall = 0
    /\ \E n \in PoolSizes :
         /\ pool_pids \in {S \in SUBSET Pids : Cardinality(S) = n}
         /\ runs = [r \in 1..n |-> QueuedRun]
    /\ heap = [p \in pool_pids |-> 0]

\* an idle worker takes the oldest queued run; line 522 seeds the generator
RunStart(p) ==
    /\ p \in pool_pids /\ ~Busy(p) /\ Queued # {}
    /\ LET r == CHOOSE q \in Queued : \A o \in Queued : q <= o
       IN runs' = [runs EXCEPT ![r] = [@ EXCEPT !.st = "seeded", !.pid = p,
                                                !.seed = Seed(p, wall),
                                                !.start = wall]]
    /\ UNCHANGED <<coordVars, trainVars, winVars, argVars, restVars, wall, pool_pids, heap>>

\* lines 312-314: nn_d1, nn_d2, nn_d3
RunBuild(r) ==
    /\ r \in DOMAIN runs /\ runs[r].st = "seeded"
    /\ LET p == runs[r].pid
       IN /\ runs' = [runs EXCEPT ![r] = [@ EXCEPT !.st = "built",
                        !.nets = [c \in Channels |->
                                    NetworkArrays(p, ChannelBase(heap[p], c))]]]
          /\ heap' = [heap EXCEPT ![p] = @ + 3 * ARRAYS_PER_NET]
    /\ UNCHANGED <<coordVars, trainVars, winVars, argVars, restVars, wall, pool_pids>>

\* lines 352-366: one sample of the run's training
RunTrain(r) ==
    /\ r \in DOMAIN runs /\ runs[r].st = "built"
    /\ runs' = [runs EXCEPT ![r] = [@ EXCEPT !.st = "trained",
                     !.log = ApplyCalls(@, SampleCalls, 1, <<1, 1>>)]]
    /\ UNCHANGED <<coordVars, trainVars, winVars, argVars, restVars, wall, pool_pids, heap>>

\* lines 341, 527-530: the run returns once its time budget (300 s, line 636)
\* has elapsed on the clock
RunReturn(r) ==
    /\ r \in DOMAIN runs /\ runs[r].st = "trained"
    /\ wall > runs[r].start
    /\ runs' = [runs EXCEPT ![r].st = "done"]
    /\ UNCHANGED <<coordVars, trainVars, winVars, argVars, restVars, wall, pool_pids, heap>>

WallTick ==
    /\ wall < MaxWall
    /\ wall' = wall + 1
    /\ UNCHANGED <<coordVars, trainVars, winVars, argVars, restVars, pool_pids, runs, heap>>

InitPool == CoordIdle /\ TrainIdle /\ WinIdle /\ PoolInit /\ ArgIdle /\ RestIdle
NextPool ==
    \/ \E p \in Pids : RunStart(p)
    \/ \E r \in Tasks : RunBuild(r)
    \/ \E r \in Tasks : RunTrain(r)
    \/ \E r \in Tasks : RunReturn(r)
    \/ WallTick
SpecPool == InitPool /\ [][NextPool]_vars

(***************************************************************************)
(* Digit selection: train_pure_python lines 403-405                        *)
(***************************************************************************)
\* line 307
OUTPUT_SIZE == 10
Digits == 0..(OUTPUT_SIZE - 1)
Levels == 0..MaxLevel

\* max(prob): left-to-right scan that keeps the first greatest value
RECURSIVE ListMaxFrom(_, _, _)
ListMaxFrom(p, i, best) ==
    IF i > OUTPUT_SIZE - 1 THEN best
    ELSE ListMaxFrom(p, i + 1, IF p[i] > best THEN p[i] ELSE best)
ListMax(p) == ListMaxFrom(p, 1, p[0])

\* prob.index(v): position of the first element equal to v
RECURSIVE ListIndexFrom(_, _, _)
ListIndexFrom(p, v, i) ==
    IF i > OUTPUT_SIZE - 1 THEN -1
    ELSE IF p[i] = v THEN i ELSE ListIndexFrom(p, v, i + 1)
ListIndexLast(p, v) == CHOOSE i \in Digits : p[i] = v /\ \A j \in Digits : p[j] = v => j <= i
ListIndex(p, v) == ListIndexFrom(p, v, 0)

ArgInit ==
    /\ apc = "forwarded"
    /\ achan \in Channels
    /\ prob \in [Digits -> Levels]
    /\ digit = -1

\* d = prob.index(max(prob))
SelectDigit ==
    /\ apc = "forwarded"
    /\ digit' = ListIndex(prob, ListMax(prob))
    /\ apc' = "selected"
    /\ UNCHANGED <<coordVars, trainVars, winVars, poolVars, restVars, achan, prob>>

InitArg == CoordIdle /\ TrainIdle /\ WinIdle /\ PoolIdle /\ ArgInit /\ RestIdle
NextArg == SelectDigit
SpecArg == InitArg /\ [][NextArg]_vars

(***************************************************************************)
(* Learning-rate decay: DeepBPNN.decay_learning_rate, lines 204-206        *)
(***************************************************************************)
\* Rates are kept on an integer scale that orders them as binary64 orders
\* the values of 0.05 * 0.995 ** epoch: a greater number is a greater rate
\* and 0 is the float 0.0.  The power underflows: UNDERFLOW_EPOCH is the
\* first epoch whose product is 0.0.
RateOf(e) == IF e >= UNDERFLOW_EPOCH THEN 0 ELSE UNDERFLOW_EPOCH - e

\* line 174 (with learning_rate=0.05 of lines 312-314)
initial_lr == RateOf(0)

\* line 206: self.initial_lr * (decay_rate ** epoch)
DecayedRate(e) == RateOf(e)

DecayEpochs ==
    {0, 1, DECAY_EVERY, 2 * DECAY_EVERY, 100 * DECAY_EVERY,
     UNDERFLOW_EPOCH - 1, UNDERFLOW_EPOCH, UNDERFLOW_EPOCH + DECAY_EVERY}

DecayInit ==
    /\ learning_rate = initial_lr
    /\ lr_arg = -1 /\ lr_before = initial_lr /\ lr_arg_before = -1
    /\ lr_calls = 0

\* one call decay_learning_rate(e); the caller's epochs never decrease
DecayCall(e) ==
    /\ lr_calls < MaxDecayCalls
    /\ e >= lr_arg
    /\ learning_rate' = DecayedRate(e)
    /\ lr_arg' = e
    /\ lr_before' = learning_rate
    /\ lr_arg_before' = lr_arg
    /\ lr_calls' = lr_calls + 1
    /\ UNCHANGED <<baseVars, fwdVars, colVars, cleanVars, fetchVars>>

InitDecay ==
    /\ CoordIdle /\ TrainIdle /\ WinIdle /\ PoolIdle /\ ArgIdle
    /\ DecayInit /\ FwdIdle /\ ColIdle /\ CleanIdle /\ FetchIdle
NextDecay == \E e \in DecayEpochs : DecayCall(e)
SpecDecay == InitDecay /\ [][NextDecay]_vars

(***************************************************************************)
(* Output layer of DeepBPNN.forward (lines 231-239) and sigmoid (193-196). *)
(* Pre-activations are integers; the hidden layers are one relu unit.      *)
(***************************************************************************)
\* Output values are kept on an integer scale that orders them as the reals
\* are ordered: ZERO is 0.0, ONE is 1.0.
ZERO == 0
ONE == 2 * CLAMP + 2

\* math.exp(y) raises OverflowError for arguments above EXP_MAX
ExpRaises(y) == y > EXP_MAX

\* line 196: 1.0 / (1.0 + math.exp(-x)), a quotient in (0, 1]
Logistic(x) == Max(ZERO + 1, Min(x + CLAMP + 1, ONE))

\* lines 193-196
SigmoidUnclamped(x) ==
    [value |-> Logistic(x), exp |-> TRUE, raises |-> ExpRaises(-x)]
Sigmoid(x) ==
    IF x > CLAMP THEN [value |-> ONE, exp |-> FALSE, raises |-> FALSE]
    ELSE IF x < -CLAMP THEN [value |-> ZERO, exp |-> FALSE, raises |-> FALSE]
    ELSE [value |-> Logistic(x), exp |-> TRUE, raises |-> ExpRaises(-x)]

\* line 234-236: activation = B3[j] + h2_out[i] * W3[i][j]
Activation(j) == B3[j] + h2_out * W3[j]

PreActs == <<-1000, -EXP_MAX - 1, -CLAMP - 1, -CLAMP, -1, 0, 1, CLAMP, CLAMP + 1, 1000>>
Shifted(k) == [j \in Digits |-> PreActs[((j + k) % OUTPUT_SIZE) + 1]]
WeightVectors == {Shifted(k) : k \in Digits}

FwdInit ==
    /\ fpc = "output"
    /\ h2_out \in {0, 1}
    /\ W3 \in WeightVectors
    /\ B3 \in WeightVectors
    /\ final_outputs = <<>>
    /\ exp_evals = {}

\* lines 233-237: one iteration of the output loop
OutputUnit ==
    /\ fpc = "output" /\ Len(final_outputs) < OUTPUT_SIZE
    /\ LET j == Len(final_outputs)
           r == Sigmoid(Activation(j))
       IN /\ exp_evals' = IF r.exp THEN exp_evals \union {j} ELSE exp_evals
          /\ IF r.raises
             THEN /\ fpc' = "raised" /\ UNCHANGED final_outputs
             ELSE /\ final_outputs' = Append(final_outputs, r.value)
                  /\ UNCHANGED fpc
    /\ UNCHANGED <<baseVars, decayVars, colVars, cleanVars, fetchVars, h2_out, W3, B3>>

\* line 239
ForwardReturn ==
    /\ fpc = "output" /\ Len(final_outputs) >= OUTPUT_SIZE
    /\ fpc' = "returned"
    /\ UNCHANGED <<baseVars, decayVars, colVars, cleanVars, fetchVars, h2_out, W3, B3,
                   final_outputs,
                   exp_evals>>

InitFwd ==
    /\ CoordIdle /\ TrainIdle /\ WinIdle /\ PoolIdle /\ ArgIdle
    /\ DecayIdle /\ FwdInit /\ ColIdle /\ CleanIdle /\ FetchIdle
NextFwd == OutputUnit \/ ForwardReturn
SpecFwd == InitFwd /\ [][NextFwd]_vars

(***************************************************************************)
(* Collector: collect_data.py main (lines 174-205) with save_data and      *)
(* load_existing_data, followed by load_history of remote_keepalive.py     *)
(* (lines 90-110).  Issue ids are numbers standing for decimal strings of  *)
(* one length, whose string order is their numeric order.  A fetched list  *)
(* is its length together with those of its records whose issue id is in   *)
(* Issues.                                                                 *)
(***************************************************************************)
Issues == 1..MaxIssue
DigitText == <<"0", "1">>
DigitVals == {0, 1}

\* records as the fetch functions build them (lines 65-71, 126-132); a JSON
\* null date arrives as None
FetchedRecords == [issue : Issues, d : {1}, date : {"None", "t"}]
FetchedSeqs ==
    {<<>>} \union {<<r>> : r \in FetchedRecords}
           \union {<<r1, r2>> : r1 \in FetchedRecords, r2 \in FetchedRecords}
Fetches == {[len |-> n, recs |-> r] : n \in {0, MIN_FETCH - 1, MIN_FETCH}, r \in FetchedSeqs}
FetchResults == {f \in Fetches : f.len >= Len(f.recs)}

\* csv.DictWriter writes numbers as decimal text and None as the empty string
WriteRow(r) ==
    [issue |-> r.issue, d |-> DigitText[r.d + 1],
     date |-> IF r.date = "None" THEN "" ELSE r.date]
\* lines 153-154 and 101-102: int(r["d1"]), r.get("date", "")
ReadRow(row) ==
    [issue |-> row.issue,
     d |-> CHOOSE v \in DigitVals : DigitText[v + 1] = row.d,
     date |-> row.date]
WriteRows(recs) == [k \in DOMAIN recs |-> WriteRow(recs[k])]
ReadRows(rows) == [k \in DOMAIN rows |-> ReadRow(rows[k])]

\* list.sort(key=lambda x: x["issue"]): stable, ascending
RECURSIVE InsertByIssue(_, _)
InsertByIssue(sorted, r) ==
    IF sorted = <<>> THEN <<r>>
    ELSE IF Head(sorted).issue <= r.issue
         THEN <<Head(sorted)>> \o InsertByIssue(Tail(sorted), r)
         ELSE <<r>> \o sorted
RECURSIVE SortByIssue(_)
SortByIssue(recs) ==
    IF recs = <<>> THEN <<>>
    ELSE InsertByIssue(SortByIssue(SubSeq(recs, 1, Len(recs) - 1)), recs[Len(recs)])

IssuesOf(recs) == {recs[k].issue : k \in DOMAIN recs}

\* lines 191-198: existing_issues is computed once, before the loop
MergeAll(old, fetched) == old \o fetched
Merge(old, fetched) ==
    old \o SelectSeq(fetched, LAMBDA r : r.issue \notin IssuesOf(old))

\* the file as an earlier run of the collector left it: one row per issue,
\* ascending (or no file)
StoredRow(i) == [issue |-> i, d |-> "0", date |-> "t"]
StoredFile(S) ==
    [k \in 1..Cardinality(S) |->
        StoredRow(CHOOSE i \in S : Cardinality({j \in S : j < i}) = k - 1)]

ColInit ==
    /\ col_pc = "start"
    /\ csv_file \in {StoredFile(S) : S \in SUBSET Issues}
    /\ csv_before = csv_file
    /\ new_data = NoFetch /\ existing = <<>> /\ exit_code = -1 /\ history = <<>>
    /\ csv_writes = 0 /\ sina_len = 0

\* lines 177-182: new_data = fetch_from_sina(200), too short a list sends
\* the collector to the backup source
FetchSina ==
    /\ col_pc = "start"
    /\ \E f \in FetchResults :
         /\ new_data' = f
         /\ sina_len' = f.len
         /\ col_pc' = IF f.len = 0 \/ f.len < MIN_FETCH THEN "backup" ELSE "check"
    /\ UNCHANGED <<baseVars, decayVars, fwdVars, cleanVars, fetchVars,
                   csv_file, existing, exit_code,
                   history, csv_before, csv_writes>>

\* line 182: new_data = fetch_from_cwl_backup(200)
FetchBackup ==
    /\ col_pc = "backup"
    /\ new_data' \in FetchResults
    /\ col_pc' = "check"
    /\ UNCHANGED <<baseVars, decayVars, fwdVars, cleanVars, fetchVars,
                   csv_file, existing, exit_code,
                   history, csv_before, csv_writes, sina_len>>

\* lines 184-186: if not new_data: sys.exit(1)
CheckData ==
    /\ col_pc = "check"
    /\ IF new_data.len = 0
       THEN col_pc' = "exited" /\ exit_code' = 1
       ELSE col_pc' = "load" /\ UNCHANGED exit_code
    /\ UNCHANGED <<baseVars, decayVars, fwdVars, cleanVars, fetchVars,
                   csv_file, new_data, existing,
                   history, csv_before, csv_writes, sina_len>>

\* line 189: existing = load_existing_data()
LoadExisting ==
    /\ col_pc = "load"
    /\ existing' = ReadRows(csv_file)
    /\ col_pc' = "merge"
    /\ UNCHANGED <<baseVars, decayVars, fwdVars, cleanVars, fetchVars,
                   csv_file, new_data, exit_code,
                   history, csv_before, csv_writes, sina_len>>

\* lines 190-198
MergeNew ==
    /\ col_pc = "merge"
    /\ existing' = Merge(existing, new_data.recs)
    /\ col_pc' = "save"
    /\ UNCHANGED <<baseVars, decayVars, fwdVars, cleanVars, fetchVars,
                   csv_file, new_data, exit_code,
                   history, csv_before, csv_writes, sina_len>>

\* lines 161-171 and the rest of main: sort in place, rewrite the file
SaveData ==
    /\ col_pc = "save"
    /\ existing' = SortByIssue(existing)
    /\ csv_file' = WriteRows(existing')
    /\ csv_writes' = csv_writes + 1
    /\ col_pc' = "saved" /\ exit_code' = 0
    /\ UNCHANGED <<baseVars, decayVars, fwdVars, cleanVars, fetchVars,
                   new_data, history, csv_before,
                   sina_len>>

\* remote_keepalive.py lines 98-106: read the file, sort by issue
LoadHistoryFile ==
    /\ col_pc = "saved"
    /\ history' = SortByIssue(ReadRows(csv_file))
    /\ col_pc' = "loaded"
    /\ UNCHANGED <<baseVars, decayVars, fwdVars, cleanVars, fetchVars,
                   csv_file, new_data, existing,
                   exit_code, csv_before, csv_writes, sina_len>>

InitCol ==
    /\ CoordIdle /\ TrainIdle /\ WinIdle /\ PoolIdle /\ ArgIdle
    /\ DecayIdle /\ FwdIdle /\ ColInit /\ CleanIdle /\ FetchIdle
NextCol ==
    \/ FetchSina \/ FetchBackup \/ CheckData \/ LoadExisting \/ MergeNew
    \/ SaveData \/ LoadHistoryFile
SpecCol == InitCol /\ [][NextCol]_vars

(***************************************************************************)
(* Duplicate-process cleanup at the start of main, lines 539-571, run by   *)
(* several keepalive instances on one host.  An instance is named by its   *)
(* pid.  os.kill is a system call: the signal is queued for the target     *)
(* when the call executes, and a process with a pending SIGKILL dies when  *)
(* it is next about to run user code, so a process already inside the      *)
(* call completes it.                                                      *)
(***************************************************************************)
Instances == 1..MaxInst

\* pgrep -f scripts/remote_keepalive.py: the pids of the existing instances
Pgrep == {p \in Instances : alive[p]}

\* line 553: other_pids = [p for p in pids if p != current_pid]
OtherPids(pids, current_pid) == {p \in pids : p # current_pid}

CleanInit ==
    /\ ipc = [i \in Instances |-> "off"]
    /\ alive = [i \in Instances |-> FALSE]
    /\ sigkill = [i \in Instances |-> FALSE]
    /\ other_pids = [i \in Instances |-> {}]
    /\ kills_sent = {}

\* user code of instance i can run
Runs(i) == alive[i] /\ ~sigkill[i]

\* the instance is started
Launch(i) ==
    /\ ipc[i] = "off"
    /\ ipc' = [ipc EXCEPT ![i] = "pgrep"]
    /\ alive' = [alive EXCEPT ![i] = TRUE]
    /\ UNCHANGED <<baseVars, decayVars, fwdVars, colVars, fetchVars,
                   sigkill, other_pids,
                   kills_sent>>

\* lines 546-553
ListOthers(i) ==
    /\ Runs(i) /\ ipc[i] = "pgrep"
    /\ other_pids' = [other_pids EXCEPT ![i] = OtherPids(Pgrep, i)]
    /\ ipc' = [ipc EXCEPT ![i] = IF other_pids'[i] = {} THEN "task" ELSE "kill"]
    /\ UNCHANGED <<baseVars, decayVars, fwdVars, colVars, fetchVars,
                   alive, sigkill, kills_sent>>

\* line 559: os.kill(pid, 9) is entered
KillEnter(i) ==
    /\ Runs(i) /\ ipc[i] = "kill"
    /\ ipc' = [ipc EXCEPT ![i] = "syscall"]
    /\ UNCHANGED <<baseVars, decayVars, fwdVars, colVars, fetchVars,
                   alive, sigkill, other_pids,
                   kills_sent>>

\* the call queues the signal (ProcessLookupError if the target is gone) and
\* returns; the loop goes to the next pid, then to time.sleep(1)
KillSend(i) ==
    /\ alive[i] /\ ipc[i] = "syscall"
    /\ LET p == CHOOSE q \in other_pids[i] : \A o \in other_pids[i] : q <= o
       IN /\ sigkill' = [sigkill EXCEPT ![p] = alive[p]]
          /\ kills_sent' = kills_sent \union {<<i, p>>}
          /\ other_pids' = [other_pids EXCEPT ![i] = @ \ {p}]
          /\ ipc' = [ipc EXCEPT ![i] = IF other_pids'[i] = {} THEN "sleep" ELSE "kill"]
    /\ UNCHANGED <<baseVars, decayVars, fwdVars, colVars, fetchVars,
                   alive>>

\* line 566: time.sleep(1), then the keepalive task
Sleep(i) ==
    /\ Runs(i) /\ ipc[i] = "sleep"
    /\ ipc' = [ipc EXCEPT ![i] = "task"]
    /\ UNCHANGED <<baseVars, decayVars, fwdVars, colVars, fetchVars,
                   alive, sigkill, other_pids,
                   kills_sent>>

\* SIGKILL takes effect
Die(i) ==
    /\ alive[i] /\ sigkill[i] /\ ipc[i] # "syscall"
    /\ alive' = [alive EXCEPT ![i] = FALSE]
    /\ sigkill' = [sigkill EXCEPT ![i] = FALSE]
    /\ ipc' = [ipc EXCEPT ![i] = "killed"]
    /\ UNCHANGED <<baseVars, decayVars, fwdVars, colVars, fetchVars,
                   other_pids, kills_sent>>

InitClean ==
    /\ CoordIdle /\ TrainIdle /\ WinIdle /\ PoolIdle /\ ArgIdle
    /\ DecayIdle /\ FwdIdle /\ ColIdle /\ CleanInit /\ FetchIdle
NextClean ==
    \/ \E i \in Instances : Launch(i)
    \/ \E i \in Instances : ListOthers(i)
    \/ \E i \in Instances : KillEnter(i)
    \/ \E i \in Instances : KillSend(i)
    \/ \E i \in Instances : Sleep(i)
    \/ \E i \in Instances : Die(i)
SpecClean == InitClean /\ [][NextClean]_vars

(***************************************************************************)
(* fetch_from_sina, collect_data.py lines 23-95.  Only the length of       *)
(* all_results is kept.                                                    *)
(***************************************************************************)
Limits == {0, 1, PAGE_SIZE, 2 * PAGE_SIZE - 1, 2 * PAGE_SIZE, 2 * PAGE_SIZE + 5}

\* line 38: max_pages = (limit // 20) + 1
MaxPages(l) == (l \div PAGE_SIZE) + 1

\* line 40: while page <= max_pages and len(all_results) < limit
LoopCondUncapped(p, mp, n, l) == n < l
LoopCond(p, mp, n, l) == p <= mp /\ n < l

\* line 95: all_results[:limit], for limit >= 0
SliceLen(n, l) == Min(n, l)

\* What one request can bring: an exception (from the request, or from int()
\* after some records of the page were appended), a reply without data, or
\* a page of which some records are appended, with the totalPage it reports.
PageOutcomes ==
    {[kind |-> "error", added |-> k, total_pages |-> 0] :
               k \in {0, 1, PAGE_SIZE + 5}}
    \union {[kind |-> "nodata", added |-> 0, total_pages |-> 0]}
    \union {[kind |-> "page", added |-> k, total_pages |-> tp] :
               k \in {0, 1, PAGE_SIZE, PAGE_SIZE + 5}, tp \in {1, 2, 1000}}

FetchInit ==
    /\ fetch_pc = "loop"
    /\ limit \in Limits
    /\ page = 1
    /\ max_pages = MaxPages(limit)
    /\ all_results = 0 /\ returned_len = -1 /\ requests = 0 /\ last_page = "none"

\* lines 42-92: one iteration of the loop
FetchPage ==
    /\ fetch_pc = "loop" /\ LoopCond(page, max_pages, all_results, limit)
    /\ requests' = requests + 1
    /\ \E o \in PageOutcomes :
         /\ last_page' = o.kind
         /\ all_results' = all_results + o.added
         /\ IF o.kind = "page" /\ page < o.total_pages
            THEN page' = page + 1 /\ UNCHANGED fetch_pc
            ELSE fetch_pc' = "return" /\ UNCHANGED page
    /\ UNCHANGED <<baseVars, decayVars, fwdVars, colVars, cleanVars, limit, max_pages,
                   returned_len>>

\* line 40 ends the loop
LoopEnd ==
    /\ fetch_pc = "loop" /\ ~LoopCond(page, max_pages, all_results, limit)
    /\ fetch_pc' = "return"
    /\ UNCHANGED <<baseVars, decayVars, fwdVars, colVars, cleanVars, limit, page,
                   max_pages, all_results, returned_len, requests, last_page>>

\* line 95
FetchReturn ==
    /\ fetch_pc = "return"
    /\ returned_len' = SliceLen(all_results, limit)
    /\ fetch_pc' = "done"
    /\ UNCHANGED <<baseVars, decayVars, fwdVars, colVars, cleanVars, limit, page,
                   max_pages, all_results, requests, last_page>>

InitFetch ==
    /\ CoordIdle /\ TrainIdle /\ WinIdle /\ PoolIdle /\ ArgIdle
    /\ DecayIdle /\ FwdIdle /\ ColIdle /\ CleanIdle /\ FetchInit
NextFetch == FetchPage \/ LoopEnd \/ FetchReturn
\* the function keeps executing: every request returns or raises (timeout=30)
SpecFetch == InitFetch /\ [][NextFetch]_vars /\ WF_vars(NextFetch)

(***************************************************************************)
(* Coordinator properties                                                  *)
(***************************************************************************)
Submitted == 1..Len(results)
MultiWorker == training_processes > 1
Emitted == cpc \in {"save", "done"}

\* C1: when a worker's training call raises, the coordinator never accepts that
\* worker's result; it accepts the result of a worker that completed, and it
\* fails the whole run only if no worker completed.
C1_FailedWorkerHandled ==
    MultiWorker =>
      /\ Emitted => \E t \in Submitted : task[t] = "returned" /\ pred = task_out[t]
      /\ cpc = "failed" => \A t \in Submitted : task[t] # "returned"

\* C2: once every worker has stopped (returned, raised or died), the
\* coordinator's wait can end: its pending r.get() returns or raises.
C2_WaitEnds ==
    (cpc = "collect" /\ \A t \in Submitted : task[t] \notin {"queued", "running"})
      => ENABLED Collect

\* C3: in multi-worker mode the prediction is selected, and saved, only after
\* every launched worker has finished its run.
C3_JoinBeforeSelect ==
    (MultiWorker /\ (cpc \in {"select", "save", "done"} \/ saved # NoPred))
      => /\ Len(results) = training_processes
         /\ \A t \in Submitted : task[t] = "returned"

\* three workers, the last-registered one ended first, and the prediction was
\* saved
C3_Witness ==
    /\ cpc = "done" /\ training_processes = 3 /\ saved # NoPred
    /\ finish_order[1] = 3

\* C4: when all workers succeed the accepted prediction is the result of the
\* first-registered worker, whatever order the workers finish in.
C4_FirstRegistered ==
    (MultiWorker /\ Emitted) =>
      /\ pred = task_out[results[1]]
      /\ cpc = "done" => saved = task_out[results[1]]

\* the first-registered worker ended last, another worker returned a different
\* value, and the first one's value was saved
C4_Witness ==
    /\ cpc = "done" /\ MultiWorker
    /\ finish_order[Len(finish_order)] = results[1]
    /\ task_out[finish_order[1]] # task_out[results[1]]
    /\ saved = task_out[results[1]]

\* main has ended: by returning or by an exception leaving it
Terminal == {"done", "failed", "insufficient", "aborted"}

\* C12: the caller observes either a complete prediction (produced after the
\* training completed, then persisted) or an explicit failure: nothing is
\* persisted before training completed, and no run ends with neither a
\* persisted prediction nor a failure raised to the caller.
C12_CompleteOrFailure ==
    /\ saved # NoPred =>
         /\ saved \in PredSet
         /\ pool_size > 0 => \A t \in Submitted : task[t] = "returned"
    /\ cpc \in Terminal => (saved # NoPred \/ cpc = "failed")

\* C13: the worker count is cpu_count - 1 for 3 or more CPUs and 1 otherwise
\* (1, 2 or an undetectable count); it is at least 1, and below cpu_count when
\* cpu_count is at least 2.
C13_WorkerCount ==
    cpc \notin {"security", "detect", "aborted"} =>
      /\ training_processes = IF cpu_count >= 3 THEN cpu_count - 1 ELSE 1
      /\ training_processes >= 1
      /\ cpu_count >= 2 => training_processes < cpu_count

C13_Witness ==
    /\ cpc = "done" /\ cpu_count = 3 /\ training_processes = 2

\* C14: with one worker the trainer runs in main's own process and no pool or
\* worker is created; with more, exactly training_processes runs are
\* submitted, each with the same history and target duration.
C14_ModeAndSubmissions ==
    cpc \in {"single", "submit", "collect", "select", "save", "done", "failed"} =>
      /\ training_processes = 1 =>
           /\ pool_size = 0 /\ results = <<>>
           /\ \A t \in Tasks : task[t] = "none" /\ task_args[t] = NoArgs
           /\ cpc \notin {"submit", "collect", "select"}
      /\ training_processes > 1 =>
           /\ pool_size = training_processes
           /\ cpc # "single"
           /\ Len(results) <= training_processes
           /\ cpc # "submit" => Len(results) = training_processes
           /\ \A t \in Submitted : task_args[t] = RunArgs(hlen, TARGET_DURATION)
           /\ \A t \in Tasks \ Submitted : task[t] = "none"

\* three runs were submitted with the same arguments and the prediction saved
C14_Witness ==
    /\ cpc = "done" /\ training_processes = 3 /\ Len(results) = 3
    /\ task_args[1] = task_args[3] /\ task_args[1] # NoArgs

(***************************************************************************)
(* Trainer properties                                                      *)
(***************************************************************************)
Started == tpc \notin {"idle", "entry", "build"}

\* C5: once the elapsed time has reached target_duration, at most 500 further
\* samples are processed and no new pass is started.
C5_BoundedOverrun ==
    /\ since_deadline <= CHECK_EVERY
    /\ ~pass_after_deadline

\* the deadline was reached right after a periodic check, exactly 500 further
\* samples were processed and the loop was left in the middle of the pass
C5_Witness ==
    /\ tpc = "done" /\ target_duration > 0
    /\ since_deadline = CHECK_EVERY
    /\ 0 < idx /\ idx < train_len

\* C6: with target_duration = 0 the trainer processes no sample and starts no
\* pass, is never stuck, and returns the digits of the inference step.
C6_ZeroDuration ==
    (target_duration = 0 /\ data_len >= MIN_HISTORY) =>
      /\ epoch = 0 /\ samples_processed = 0 /\ passes_done = 0
      /\ tpc \notin {"pass", "passend", "raised"}
      /\ tpc # "done" => ENABLED TrainStep
      /\ tpc = "done" => tresult = "digits" /\ infer_window = effective_seq_len

C6_Witness ==
    /\ target_duration = 0 /\ data_len >= MIN_HISTORY
    /\ tpc = "done" /\ tresult = "digits" /\ samples_processed = 0

\* C7 as stated: the k-th decay is applied only after 10*k full passes have
\* completed, so every sample of passes 1 through 10 is trained at the initial
\* rate.
C7_DecayAfterTenPasses ==
    /\ decays * DECAY_EVERY <= passes_done
    /\ (tpc = "pass" /\ epoch <= DECAY_EVERY) => lr_epoch = <<0, 0, 0>>

\* C7 amended: the k-th decay is applied at the start of pass 10*k, after
\* 10*k - 1 completed passes: while pass e runs, e - 1 passes have completed,
\* e div 10 decays have been applied and every channel's rate is
\* initial * 0.995^(10 * (e div 10)); passes 1 through 9 use the initial rate.
C7_DecayAtStartOfTenthPass ==
    tpc = "pass" =>
      /\ passes_done = epoch - 1
      /\ decays = epoch \div DECAY_EVERY
      /\ \A c \in Channels : lr_epoch[c] = DECAY_EVERY * (epoch \div DECAY_EVERY)
      /\ epoch < DECAY_EVERY => lr_epoch = <<0, 0, 0>>

\* a sample of pass 10 has been trained at the decayed rate
C7_Witness ==
    /\ tpc = "pass" /\ epoch = DECAY_EVERY /\ idx > 0
    /\ passes_done = DECAY_EVERY - 1
    /\ lr_epoch = <<DECAY_EVERY, DECAY_EVERY, DECAY_EVERY>>

\* C8: on a history of fewer than 50 records the trainer entry points fail
\* with an error before any training or inference.
C8_FailFast ==
    (Started /\ data_len < MIN_HISTORY) =>
      /\ samples_processed = 0 /\ epoch = 0
      /\ infer_window = -1
      /\ tresult # "digits"

\* C9 as stated: the window size the trainer uses equals
\* min(windowSize, 50, len(history) - 10) for every history and window size.
C9_EffectiveWindow ==
    tpc \notin {"idle", "entry", "build"} =>
      effective_seq_len = Min(Min(seq_len, SEQ_CAP), data_len - SEQ_MARGIN)

\* C9 amended: the trainer uses min(windowSize, 50) for the network input
\* size, the sample construction and the inference; that is
\* min(windowSize, 50, len(history) - 10) whenever windowSize <= len(history) - 10,
\* which holds for the window size both callers pass.
C9_EffectiveWindowCapOnly ==
    tpc \notin {"idle", "entry", "build"} =>
      /\ effective_seq_len = Min(seq_len, SEQ_CAP)
      /\ effective_seq_len <= SEQ_CAP
      /\ input_size = 3 * effective_seq_len
      /\ tpc \notin {"prepare", "raised"} =>
           train_len = Max(0, data_len - effective_seq_len)
      /\ tpc = "done" => infer_window = effective_seq_len
      /\ (seq_len <= data_len - SEQ_MARGIN) =>
           effective_seq_len = Min(Min(seq_len, SEQ_CAP), data_len - SEQ_MARGIN)
      /\ entry # "train_pure_python" => seq_len <= data_len - SEQ_MARGIN

\* a direct call with a window size above len(data) - 10 has trained and
\* inferred with the window min(windowSize, 50), which exceeds len(data) - 10
C9_Witness ==
    /\ tpc = "done" /\ entry = "train_pure_python"
    /\ seq_len > data_len - SEQ_MARGIN
    /\ effective_seq_len = SEQ_CAP /\ effective_seq_len > data_len - SEQ_MARGIN
    /\ infer_window = SEQ_CAP /\ samples_processed > 0


(***************************************************************************)
(* Windower properties                                                     *)
(***************************************************************************)
\* C10: for a window size w and a history of length n > w the windower
\* produces exactly n - w samples, each with 3*w features.
C10_SampleShape ==
    (wpc = "built" /\ Len(wdata) > ww) =>
      /\ Len(wsamples) = Len(wdata) - ww
      /\ \A k \in 1..Len(wsamples) : Len(wsamples[k].inputs) = 3 * ww

C10_Witness ==
    /\ wpc = "built" /\ Len(wdata) = MaxHist /\ ww = 2
    /\ Len(wsamples) = MaxHist - 2
    /\ Len(wsamples[1].inputs) = 6

\* the feature at position k (1-based) of a window that starts at record
\* r (1-based): records in order, d1, d2, d3 of each, divided by 9
FeatureAt(data, r, k) ==
    LET item == data[r + ((k - 1) \div 3)]
        pos == (k - 1) % 3
    IN  IF pos = 0 THEN <<item.d1, 9>>
        ELSE IF pos = 1 THEN <<item.d2, 9>> ELSE <<item.d3, 9>>

\* C11: for every start index i from 0 to len(history) - w - 1 the i-th sample
\* holds the digits d1, d2, d3 (each over 9) of records i .. i+w-1 in that
\* order and the targets d1, d2, d3 of record i+w; samples are in increasing i,
\* none skipped or duplicated.
C11_SampleContent ==
    (wpc \in {"built", "inferred"} /\ Len(wdata) > ww) =>
      /\ Len(wsamples) = Len(wdata) - ww
      /\ \A i \in 0..(Len(wdata) - ww - 1) :
           LET smp == wsamples[i + 1] IN
             /\ Len(smp.inputs) = 3 * ww
             /\ \A k \in 1..(3 * ww) : smp.inputs[k] = FeatureAt(wdata, i + 1, k)
             /\ smp.d1 = wdata[i + ww + 1].d1
             /\ smp.d2 = wdata[i + ww + 1].d2
             /\ smp.d3 = wdata[i + ww + 1].d3

\* two windows of two records over a history of all-different records
C11_Witness ==
    /\ wpc = "built" /\ Len(wdata) = 4 /\ ww = 2
    /\ wdata[1] # wdata[2] /\ wdata[2] # wdata[3] /\ wdata[3] # wdata[4]
    /\ Len(wsamples) = 2
    /\ wsamples[2].inputs[1] = <<wdata[2].d1, 9>>
    /\ wsamples[2].d3 = wdata[4].d3

\* C19: the inference feature vector holds exactly the last effective-window
\* records of the history, oldest first and the most recent last, with the
\* digit order and normalisation of the training samples.
C19_LastWindow ==
    (wpc = "inferred" /\ ww <= Len(wdata)) =>
      /\ Len(wlast) = 3 * ww
      /\ \A k \in 1..(3 * ww) : wlast[k] = FeatureAt(wdata, Len(wdata) - ww + 1, k)
      /\ wlast = WindowInputs(wdata, Len(wdata) - ww, 0, ww)

\* a window of two records that differ: the most recent record comes last
C19_Witness ==
    /\ wpc = "inferred" /\ ww = 2 /\ Len(wdata) = 3
    /\ wdata[2] # wdata[3]
    /\ wlast[4] = <<wdata[3].d1, 9>>
    /\ wlast[1] = <<wdata[2].d1, 9>>

\* C17: on every network each backward is immediately preceded by a forward on
\* that network with the same sample's features, and within a pass every
\* sample makes exactly one forward+backward pair on each of the three
\* networks.
C17_ForwardThenBackward ==
    /\ ~nn_log.mismatch
    /\ tpc \in {"pass", "passend"} =>
         \A c \in Channels :
           /\ nn_log.fwd[c] = idx /\ nn_log.bwd[c] = idx
           /\ nn_log.pending[c] = NoSample
    /\ (tpc = "passend" /\ idx = train_len) =>
         \A c \in Channels : nn_log.bwd[c] = train_len

\* a pass over three samples has just been completed
C17_Witness ==
    /\ tpc = "passend" /\ train_len = 3 /\ idx = 3 /\ epoch = 2
    /\ \A c \in Channels : nn_log.fwd[c] = 3 /\ nn_log.bwd[c] = 3

\* C23: whenever a pass is executed the divisor of the mean loss,
\* len(train_data), is at least 1, so the training loop never divides by
\* zero, for every history and window size the trainer accepts.
C23_DivisorPositive ==
    /\ tpc \in {"pass", "passend"} => train_len >= 1
    /\ tresult # "ZeroDivisionError"

\* C25: when the security scan reports an issue of any level, main returns
\* before it detects resources, loads the history, trains or saves; when the
\* scan raises, main goes on exactly as after a scan without issues.
C25_ScanGate ==
    /\ (sec.kind = "returned" /\ sec.issues # <<>>) =>
         /\ cpc = "aborted"
         /\ training_processes = 0 /\ hlen = 0 /\ pool_size = 0
         /\ results = <<>> /\ \A t \in Tasks : task[t] = "none"
         /\ pred = InitialPred /\ saved = NoPred
         /\ ~ENABLED CoordNext
    /\ (sec.kind = "raised" \/ (sec.kind = "returned" /\ sec.issues = <<>>)) =>
         /\ cpc # "aborted"
         /\ cpc = "detect" => ENABLED DetectResources

\* a scan that found nothing critical has stopped main
C25_Witness ==
    /\ cpc = "aborted"
    /\ sec.kind = "returned" /\ sec.issues # <<>> /\ ~HasCritical(sec)

\* C27: throughout a training run the three networks, which start from the
\* same initial rate, have the same learning rate (the same decay exponent),
\* and a learning rate changes only by a decay step that gives all three the
\* rate of the current epoch.
C27_SameRate ==
    /\ [](\A c1, c2 \in Channels : lr_epoch[c1] = lr_epoch[c2])
    /\ [][lr_epoch' # lr_epoch =>
            /\ tpc = "while" /\ DecayDue(epoch')
            /\ \A c \in Channels : lr_epoch'[c] = epoch']_vars

\* the second decay step has been applied and a sample of that pass trained
C27_Witness ==
    /\ tpc = "pass" /\ epoch = 2 * DECAY_EVERY /\ idx > 0
    /\ \A c \in Channels : lr_epoch[c] = 2 * DECAY_EVERY

\* C28: training leaves its inputs unchanged: no forward or backward call
\* and no statement of the training loop modifies the history, the training
\* set, a feature list or last_seq; a backward call modifies only weights
\* and biases of the network it is called on, and a forward call only
\* attributes of its own network.
C28_InputsUnchanged ==
    /\ nn_log.loop_writes \cap InputLists = {}
    /\ \A c \in Channels :
         /\ nn_log.fwd_writes[c] \cap InputLists = {}
         /\ nn_log.bwd_writes[c] \cap InputLists = {}
         /\ nn_log.bwd_writes[c] \subseteq {<<"net", c, f>> : f \in WeightFields}
         /\ nn_log.fwd_writes[c] \subseteq {<<"net", c, f>> : f \in CacheFields}

\* the three networks have been trained on a sample and used for inference
C28_Witness ==
    /\ tpc = "done" /\ tresult = "digits"
    /\ \A c \in Channels : nn_log.bwd_writes[c] # {} /\ nn_log.fwd_writes[c] # {}

(***************************************************************************)
(* Pool properties                                                         *)
(***************************************************************************)
Seeded == {r \in DOMAIN runs : runs[r].st # "queued"}
Built == {r \in DOMAIN runs : runs[r].st \in {"built", "trained", "done"}}

\* C15: any two worker training runs of one coordinator run have seeded
\* their generators with different values of process id + wall-clock time.
C15_SeedsDiffer ==
    \A r1, r2 \in Seeded : r1 # r2 => runs[r1].seed # runs[r2].seed

\* C16: every run that built its networks has three of them, each with its
\* own arrays and each trained on the digits of its own channel only, and no
\* array belongs to two networks, be they of one run, of two runs in
\* different processes or of two runs executed by the same process.
C16_NoSharedArrays ==
    /\ \A r \in Built : \A c \in Channels :
         /\ Cardinality(runs[r].nets[c]) = ARRAYS_PER_NET
         /\ runs[r].log.targets[c] \subseteq {c}
         /\ runs[r].log.bwd[c] > 0 => runs[r].log.targets[c] = {c}
    /\ \A r1, r2 \in Built : \A c1, c2 \in Channels :
         <<r1, c1>> # <<r2, c2>> => runs[r1].nets[c1] \cap runs[r2].nets[c2] = {}

\* one process has executed two runs while another process executed a third,
\* and all three have trained their networks
C16_Witness ==
    \E r1, r2, r3 \in Built :
        /\ r1 # r2 /\ runs[r1].pid = runs[r2].pid /\ runs[r3].pid # runs[r1].pid
        /\ \A r \in {r1, r2, r3} : \A c \in Channels : runs[r].log.bwd[c] > 0

(***************************************************************************)
(* Digit selection properties                                              *)
(***************************************************************************)
\* C18: the predicted digit of a channel is an integer in 0..9, its output
\* value is the greatest of the ten, and every lower index has a strictly
\* smaller output value (ties go to the lowest index).
C18_ArgmaxLowestIndex ==
    apc = "selected" =>
        /\ digit \in Digits
        /\ \A i \in Digits : prob[i] <= prob[digit]
        /\ \A i \in Digits : i < digit => prob[i] < prob[digit]

\* the maximum is shared by the selected unit and a later one, after a
\* smaller first unit
C18_Witness ==
    /\ apc = "selected" /\ digit > 0
    /\ \E i \in Digits : i > digit /\ prob[i] = prob[digit]

(***************************************************************************)
(* Learning-rate decay properties                                          *)
(***************************************************************************)
\* C21: decay_learning_rate(epoch) computes the rate from the initial rate
\* and epoch alone (the same epoch twice gives the same rate), and over calls
\* with increasing epoch the rate never increases and stays greater than 0.
C21_DecayFromInitial ==
    lr_calls > 0 =>
        /\ learning_rate = DecayedRate(lr_arg)
        /\ lr_arg = lr_arg_before => learning_rate = lr_before
        /\ learning_rate <= lr_before
        /\ learning_rate > 0

Count(recs, r) == Cardinality({k \in DOMAIN recs : recs[k] = r})
RowsIn(rows) == {rows[k] : k \in DOMAIN rows}

\* C24: the history the loader returns after the collector merged a fetched
\* list (one that repeats an issue id included) is in ascending order of
\* issue id and has no two records with the same issue id.
C24_HistorySortedUnique ==
    col_pc = "loaded" =>
        \A i, j \in DOMAIN history : i < j => history[i].issue < history[j].issue

Launched == {i \in Instances : ipc[i] # "off"}

\* C26: the cleanup never sends a kill signal to the pid of the process that
\* runs it, and of the instances that were started at least one stays alive,
\* with no SIGKILL pending, to perform the keepalive task.
C26_CleanupKeepsOne ==
    /\ \A k \in kills_sent : k[1] # k[2]
    /\ Launched # {} => \E i \in Launched : Runs(i)

(***************************************************************************)
(* fetch_from_sina properties                                              *)
(***************************************************************************)
\* C30: fetch_from_sina(limit) terminates; it issues at most limit // 20 + 1
\* page requests whatever page counts the server reports, issues no request
\* after a failed or empty page, and returns at most limit records.
C30_FetchTerminates ==
    /\ <>(fetch_pc = "done")
    /\ [](requests <= (limit \div PAGE_SIZE) + 1)
    /\ [](last_page \in {"error", "nodata"} => fetch_pc \in {"return", "done"})
    /\ [](fetch_pc = "done" => returned_len >= 0 /\ returned_len <= limit)

\* the function returned after as many requests as the limit allows, with
\* more records collected than it may return
C30_Witness ==
    /\ fetch_pc = "done" /\ limit > 0
    /\ requests = (limit \div PAGE_SIZE) + 1 /\ requests > 1
    /\ all_results > limit /\ returned_len = limit

====
